---------------------------- MODULE Spec2Model ----------------------------
(***************************************************************************)
(* The VetCare license server (src/server.js): an in-memory registry of    *)
(* license records keyed by the SHA-256 of the license key, written to     *)
(* licenses.json after every mutation, and the HTTP handlers that issue,   *)
(* validate and manage the records.                                        *)
(*                                                                         *)
(* Conventions of the model                                                *)
(*  - Times are whole seconds; the code's millisecond values are these     *)
(*    times 1000 (every computation of the code on them is linear).        *)
(*  - A JavaScript property that may be absent (undefined) is an option:   *)
(*    None when absent, Some(v) when it holds v.                           *)
(*  - A falsy request input (absent, or the empty string) is "".           *)
(*  - crypto.randomBytes(8) is a fresh suffix: a key that is in the        *)
(*    registry is not drawn again; SHA-256 is injective on the keys.       *)
(*  - licenses is a function from hash to record; the order in which       *)
(*    Object.entries lists the records is not modelled.                    *)
(*  - The handlers are synchronous: a request is handled in one step,      *)
(*    which leaves the request in req and the response in res; the next    *)
(*    step (Await) returns the server to waiting. The properties of a      *)
(*    handler are stated on its step: unprimed variables are the state     *)
(*    before the request, primed ones the state and the response after.    *)
(***************************************************************************)
EXTENDS Integers, Sequences, FiniteSets, TLC

VARIABLES
  licenses,   \* server.js:53   let licenses: hash -> license record
  file,       \* server.js:9    the contents of LICENSES_FILE
  now,        \* the wall clock read by new Date()
  req,        \* the request whose handler has run
  res,        \* the response sent for it
  inbox,      \* the requests received together, each with its response once sent
  writable    \* fs.writeFileSync(LICENSES_FILE, ...) succeeds

vars == <<licenses, file, now, req, res, inbox, writable>>

---------------------------------------------------------------------------
(* Bounds of the model *)

MaxDays == 2          \* the clock runs from day 0 to this day
MaxUsage == 2         \* successful counted validations per license
MaxUsers == 3         \* users on one license
MaxValidity == 2      \* validityDays of a record, after extensions
HistSlack == 3        \* counted validations beyond HistoryLimit (SpecHist)
MaxExtended == 4      \* validityDays of a record, after extensions (SpecExtend)
MaxUsageTwo == 1      \* successful counted validations per license (SpecTwo)
MaxInbox == 3         \* requests received together (SpecConc)

(* Program constants *)

DayLength == 24 * 60 * 60      \* server.js:138  24 * 60 * 60 (* 1000 ms)
HistoryLimit == 100            \* server.js:486  loginHistory.length > 100
ExpiringDays == 30             \* server.js:108  daysUntilExpiry <= 30

DefaultType == "production"    \* server.js:129
DefaultRole == "user"          \* server.js:211

(* Input domains *)

CustomerIds == {"c1"}
Suffixes == {"00"}
Types == {DefaultType}
ValidityInputs == {1, 2}
Usernames == {"u1", "u2"}
AddableUsernames == {"u1"}
ManyUsernames == {"u1", "u2", "u3"}
Roles == {DefaultRole, "admin"}
Devices == {"A", "B"}
DaysToAddInputs == {-1, 0, 1}
IssueSuffixes == {"00", "01"}
ExtendInputs == {-1, 0, 1, 2}
StatsValidityInputs == {1, 30, 31}

---------------------------------------------------------------------------
(* JavaScript values *)

None == <<>>
Some(v) == <<v>>
Optional(S) == {None} \cup {Some(v) : v \in S}
Null == "null"

\* Date.prototype.toISOString and new Date(isoString): the string carries the
\* instant exactly.
toISOString(t) == <<"ISO", t>>
NewDate(s) == s[2]

---------------------------------------------------------------------------
(* Helper functions, server.js:16-50 *)

generateLicenseKey(customerId, randomSuffix) ==
  "VET-" \o customerId \o "-" \o randomSuffix

hashLicense(key) == "sha256:" \o key

AllKeys == {generateLicenseKey(c, s) : c \in CustomerIds, s \in Suffixes}
UnknownKey == "VET-zz-FF"
KeyInputs == AllKeys \cup {UnknownKey, ""}
HashInputs == {hashLicense(k) : k \in AllKeys \cup {UnknownKey}}

OptionalFields == {"boundDeviceId", "users", "loginHistory"}

\* stringifyRecord that leaves out the properties whose value is null as well
stringifyRecordDropsNull(license) ==
  [f \in (DOMAIN license) \ {g \in DOMAIN license :
                               \/ g \in OptionalFields /\ license[g] = None
                               \/ g = "deviceFingerprint" /\ license[g] = Null} |->
     IF f \in OptionalFields THEN license[f][1] ELSE license[f]]

\* JSON.stringify of one record: a property whose value is undefined is left out.
stringifyRecord(license) ==
  [f \in (DOMAIN license) \ {g \in OptionalFields : license[g] = None} |->
     IF f \in OptionalFields THEN license[f][1] ELSE license[f]]

\* JSON.parse of one record: a property that is not in the text is undefined.
parseRecord(json) ==
  [f \in (DOMAIN json) \cup OptionalFields |->
     IF f \in OptionalFields
       THEN (IF f \in DOMAIN json THEN Some(json[f]) ELSE None)
       ELSE json[f]]

\* saveLicenses: the text written to LICENSES_FILE, the [hash, license] entries.
saveLicenses(l) == {<<h, stringifyRecord(l[h])>> : h \in DOMAIN l}

\* loadLicenses: the registry built from the entries of the file.
loadLicenses(text) ==
  [h \in {e[1] : e \in text} |->
     parseRecord((CHOOSE e \in text : e[1] = h)[2])]

---------------------------------------------------------------------------
(* Steps the handlers share *)

\* expirationDate < now  (server.js:184, 359, 437)
IsExpired(license, t) == NewDate(license.expirationDate) < t

\* LicenseFailure with the activation check made before the expiration check
LicenseFailureInactiveFirst(l, hash, t) ==
  IF hash \notin DOMAIN l THEN "License not found"
  ELSE IF ~l[hash].isActive THEN "License is inactive"
  ELSE IF IsExpired(l[hash], t) THEN "License expired"
  ELSE ""

\* LicenseFailure without the activation check
LicenseFailureSkipsInactive(l, hash, t) ==
  IF hash \notin DOMAIN l THEN "License not found"
  ELSE IF IsExpired(l[hash], t) THEN "License expired"
  ELSE ""

\* The checks every validation makes once its inputs are present, in the order of
\* the code (server.js:177-190, 346-376, 427-450): the reason of the first check
\* that fails, "" when none does.
LicenseFailure(l, hash, t) ==
  IF hash \notin DOMAIN l THEN "License not found"
  ELSE IF IsExpired(l[hash], t) THEN "License expired"
  ELSE IF ~l[hash].isActive THEN "License is inactive"
  ELSE ""

\* FindUserIndex that gives the last index when the username is not found, as
\* an index of -1 does in splice and at
FindUserIndexOrLast(users, username) ==
  IF \E i \in 1..Len(users) : users[i].username = username
    THEN CHOOSE i \in 1..Len(users) :
           /\ users[i].username = username
           /\ \A j \in 1..(i-1) : users[j].username # username
    ELSE Len(users)

\* license.users.findIndex(u => u.username === username); 0 stands for -1
FindUserIndex(users, username) ==
  IF \E i \in 1..Len(users) : users[i].username = username
    THEN CHOOSE i \in 1..Len(users) :
           /\ users[i].username = username
           /\ \A j \in 1..(i-1) : users[j].username # username
    ELSE 0

\* license.users.find(u => u.username === username)
FindUser(users, username) ==
  IF FindUserIndex(users, username) = 0
    THEN None
    ELSE Some(users[FindUserIndex(users, username)])

\* UserFailure without the check of the user's own isActive
UserFailureIgnoresInactive(license, username) ==
  IF license.users = None \/ license.users = Some(<<>>)
    THEN "No users assigned to this license"
  ELSE IF FindUser(license.users[1], username) = None
    THEN "User not assigned to this license"
  ELSE ""

\* UserFailure that refuses the users of a license bound to a device
UserFailureOfBound(license, username) ==
  IF license.boundDeviceId # None
    THEN "License is bound to a different device"
  ELSE IF license.users = None \/ license.users = Some(<<>>)
    THEN "No users assigned to this license"
  ELSE IF FindUser(license.users[1], username) = None
    THEN "User not assigned to this license"
  ELSE IF ~FindUser(license.users[1], username)[1].isActive
    THEN "User is deactivated"
  ELSE ""

\* The user checks of /api/verify-user-license, in the order of the code
\* (server.js:452-473): the reason of the first that fails, "" when none does.
UserFailure(license, username) ==
  IF license.users = None \/ license.users = Some(<<>>)
    THEN "No users assigned to this license"
  ELSE IF FindUser(license.users[1], username) = None
    THEN "User not assigned to this license"
  ELSE IF ~FindUser(license.users[1], username)[1].isActive
    THEN "User is deactivated"
  ELSE ""

\* UserExists without the search
UserExistsNever(users, username) == FALSE

\* server.js:223: the username is already in the license's users
UserExists(users, username) == FindUser(users, username) # None

\* BindDevice without the comparison with the bound device
BindDeviceAny(boundDeviceId, deviceId) ==
  IF boundDeviceId = None THEN Some(deviceId) ELSE boundDeviceId

\* BindDevice binding the device of every validation
BindDeviceLast(boundDeviceId, deviceId) == Some(deviceId)

\* server.js:380-390: the binding after this validation, None when the license is
\* bound to another device
BindDevice(boundDeviceId, deviceId) ==
  IF boundDeviceId = None THEN Some(deviceId)
  ELSE IF boundDeviceId[1] # deviceId THEN None
  ELSE boundDeviceId

\* CountUse without the increment
CountUseNot(license) == license

\* CountUse counting twice
CountUseTwice(license) == [license EXCEPT !.usageCount = @ + 2]

\* CountUse from the count every request saw when it was received, 0
CountUseFromZero(license) == [license EXCEPT !.usageCount = 1]

\* CountUse that counts down
CountUseDown(license) == [license EXCEPT !.usageCount = @ - 1]

\* license.usageCount++  (server.js:192, 490)
CountUse(license) == [license EXCEPT !.usageCount = @ + 1]

\* SliceLast keeping the first n elements, slice(0, n)
SliceFirst(s, n) ==
  IF Len(s) <= n THEN s ELSE SubSeq(s, 1, n)

\* array.slice(-n)
SliceLast(s, n) ==
  IF Len(s) <= n THEN s ELSE SubSeq(s, Len(s) - n + 1, Len(s))

\* array.splice(i): the element at i and every element after it
SpliceFrom(s, i) == SubSeq(s, 1, i - 1)

\* array.splice(i, 1)
SpliceOut(s, i) == SubSeq(s, 1, i - 1) \o SubSeq(s, i + 1, Len(s))

\* PushLogin with the entry put first (unshift)
PushLoginFront(loginHistory, entry) ==
  SliceLast(<<entry>> \o (IF loginHistory = None THEN <<>> ELSE loginHistory[1]),
            HistoryLimit)

\* server.js:476-488: the entry is pushed, then only the last 100 are kept
PushLogin(loginHistory, entry) ==
  SliceLast(Append(IF loginHistory = None THEN <<>> ELSE loginHistory[1], entry),
            HistoryLimit)

\* Math.ceil((expirationDate - now) / (1000 * 60 * 60 * 24)), for a date not before now
RemainingDays(expirationDate, t) == (expirationDate - t + DayLength - 1) \div DayLength

\* WithActive that activates the user whatever the request says
WithActiveAlways(user, isActive) == [user EXCEPT !.isActive = TRUE]

\* WithActive that flips the flag of the user
WithActiveFlipped(user, isActive) == [user EXCEPT !.isActive = ~@]

\* server.js:286: user.isActive = isActive; the other properties stay
WithActive(user, isActive) == [user EXCEPT !.isActive = isActive]

\* ExpirationDate of a license that is always valid for one day
ExpirationOneDay(t, validityDays) == t + DayLength

\* server.js:138: new Date(now.getTime() + validityDays * 24 * 60 * 60 * 1000)
ExpirationDate(t, validityDays) == t + validityDays * DayLength

\* NewLicense with the issue counted as a use
NewLicenseCounted(licenseKey, customerId, type, validityDays, t) ==
  [key |-> licenseKey,
   customerId |-> customerId,
   type |-> type,
   created |-> toISOString(t),
   expirationDate |-> toISOString(ExpirationDate(t, validityDays)),
   validityDays |-> validityDays,
   deviceFingerprint |-> Null,
   usageCount |-> 1,
   isActive |-> TRUE,
   boundDeviceId |-> None,
   users |-> None,
   loginHistory |-> None]

\* server.js:137-150: the record of a license issued at t
NewLicense(licenseKey, customerId, type, validityDays, t) ==
  [key |-> licenseKey,
   customerId |-> customerId,
   type |-> type,
   created |-> toISOString(t),
   expirationDate |-> toISOString(ExpirationDate(t, validityDays)),
   validityDays |-> validityDays,
   deviceFingerprint |-> Null,
   usageCount |-> 0,
   isActive |-> TRUE,
   boundDeviceId |-> None,
   users |-> None,
   loginHistory |-> None]

\* server.js:227-232: the entry of a user added at t
NewUser(username, role, t) ==
  [username |-> username, role |-> role, addedAt |-> toISOString(t), isActive |-> TRUE]

\* LoginEntry that records the login as failed
LoginEntryFailed(username, t) ==
  [username |-> username, timestamp |-> toISOString(t), success |-> FALSE]

\* server.js:479-483: the entry of a login at t
LoginEntry(username, t) ==
  [username |-> username, timestamp |-> toISOString(t), success |-> TRUE]

Reply(status, body) == [status |-> status, body |-> body]

\* Invalid answered as an error of the operation
InvalidAsNotFound(reason) == Reply(404, [valid |-> FALSE, reason |-> reason])

Invalid(reason) == Reply(200, [valid |-> FALSE, reason |-> reason])
NotFound(error) == Reply(404, [error |-> error])

\* an early return: nothing is assigned, nothing is written
Return(r) == res' = r /\ UNCHANGED <<licenses, file, inbox, writable>>

\* Commit without the call of saveLicenses
CommitUnsaved(l, r) == licenses' = l /\ res' = r /\ UNCHANGED <<file, inbox, writable>>

\* Commit in which a failed write undoes the handler's assignments
CommitOrUndo(l, r) ==
  /\ licenses' = IF writable THEN l ELSE licenses
  /\ file' = IF writable THEN saveLicenses(l) ELSE file
  /\ res' = r
  /\ UNCHANGED <<inbox, writable>>

\* the registry after the handler's assignments, followed by
\* saveLicenses(licenses) (server.js:39-46).  writeFileSync throws when the
\* write fails and the catch only logs: the handler goes on to its response.
\* The failed write leaves the file as it was, or cut short when the failure
\* comes after the file was opened; loadLicenses reads a file cut short as no
\* license (JSON.parse throws, server.js:33-36), as it reads the file with no
\* entry.
Commit(l, r) ==
  /\ licenses' = l
  /\ IF writable THEN file' = saveLicenses(l) ELSE file' \in {file, {}}
  /\ res' = r
  /\ UNCHANGED <<inbox, writable>>

---------------------------------------------------------------------------
(* The server *)

NoRequest == [op |-> "none"]
NoResponse == Reply(0, [none |-> TRUE])

\* server.js:53: the registry is loaded from the file; no file, no licenses
Init ==
  /\ file = {}
  /\ licenses = loadLicenses(file)
  /\ now = 0
  /\ req = NoRequest
  /\ res = NoResponse
  /\ inbox = <<>>
  /\ writable = TRUE

\* the server waits for a request (app.listen, server.js:613)
Idle == req = NoRequest

\* the response has been sent; the server waits for the next request
Await ==
  /\ ~Idle
  /\ req' = NoRequest
  /\ res' = NoResponse
  /\ UNCHANGED <<licenses, file, now, inbox, writable>>

\* the process is started again: the registry is loaded from the file
\* (server.js:53)
Restart ==
  /\ Idle
  /\ licenses' = loadLicenses(file)
  /\ UNCHANGED <<file, now, req, res, inbox, writable>>

\* time passes between two requests
Tick ==
  /\ Idle
  /\ now < MaxDays * DayLength
  /\ now' = now + DayLength
  /\ UNCHANGED <<licenses, file, req, res, inbox, writable>>

\* GET /api/licenses/:hash  (server.js:71-87); the body { hash, ...license } is
\* the hash with the record's properties
GetLicense(hash) ==
  /\ req' = [op |-> "lookup", hash |-> hash]
  /\ UNCHANGED now
  /\ IF hash \notin DOMAIN licenses
       THEN Return(NotFound("License not found"))
       ELSE Return(Reply(200, [hash |-> hash, license |-> licenses[hash]]))

\* ExpiryClass without the test for an expiration in the past
ExpiryClassSoonOnly(license, t) ==
  LET untilExpiry == NewDate(license.expirationDate) - t IN
    IF untilExpiry <= ExpiringDays * DayLength THEN "expiringIn30Days" ELSE ""

\* server.js:103-110: the counter a license adds to, by the days until its
\* expiration (the division by the length of a day is made on both sides)
ExpiryClass(license, t) ==
  LET untilExpiry == NewDate(license.expirationDate) - t IN
    IF untilExpiry < 0 THEN "expired"
    ELSE IF untilExpiry <= ExpiringDays * DayLength THEN "expiringIn30Days"
    ELSE ""

\* server.js:102-117: Object.values(licenses).forEach, one license after the
\* other adding to the counters
RECURSIVE CountLicenses(_, _, _, _)
CountLicenses(l, rest, t, stats) ==
  IF rest = {} THEN stats
  ELSE
    LET h == CHOOSE x \in rest : TRUE
        class == ExpiryClass(l[h], t)
        byExpiry == IF class = "expired" THEN [stats EXCEPT !.expired = @ + 1]
                    ELSE IF class = "expiringIn30Days"
                      THEN [stats EXCEPT !.expiringIn30Days = @ + 1]
                    ELSE stats
        byActive == IF l[h].isActive THEN [byExpiry EXCEPT !.active = @ + 1]
                                     ELSE [byExpiry EXCEPT !.inactive = @ + 1]
    IN CountLicenses(l, rest \ {h}, t, byActive)

\* GET /api/stats  (server.js:90-124)
GetStats ==
  /\ req' = [op |-> "stats"]
  /\ UNCHANGED now
  /\ LET stats == CountLicenses(licenses, DOMAIN licenses, now,
                               [total |-> Cardinality(DOMAIN licenses),
                                active |-> 0,
                                inactive |-> 0,
                                expired |-> 0,
                                expiringIn30Days |-> 0,
                                timeToResolve |-> "0h"])
         body == [f \in DOMAIN stats \cup {"available"} |->
                    IF f = "available" THEN stats.total - stats.active ELSE stats[f]]
     IN Return(Reply(200, body))

\* POST /api/licenses  (server.js:127-163)
PostLicenses(customerId, type, validityDays, randomSuffix) ==
  /\ req' = [op |-> "issue", customerId |-> customerId, type |-> type,
             validityDays |-> validityDays]
  /\ UNCHANGED now
  /\ IF customerId = ""
       THEN Return(Reply(400, [error |-> "Customer ID is required"]))
       ELSE
         LET licenseKey == generateLicenseKey(customerId, randomSuffix)
             hash == hashLicense(licenseKey)
             license == NewLicense(licenseKey, customerId, type, validityDays, now)
         IN /\ hash \notin DOMAIN licenses      \* the random suffix is fresh
            /\ Commit([h \in DOMAIN licenses \cup {hash} |->
                         IF h = hash THEN license ELSE licenses[h]],
                      Reply(201, [success |-> TRUE, hash |-> hash, license |-> license]))

\* PostValidate counting the attempt as soon as the license is found
PostValidateCountsAttempts(licenseKey) ==
  /\ req' = [op |-> "validate", licenseKey |-> licenseKey]
  /\ UNCHANGED now
  /\ IF licenseKey = ""
       THEN Return(Reply(400, [valid |-> FALSE, reason |-> "License key not provided"]))
       ELSE
         LET hash == hashLicense(licenseKey)
             failure == LicenseFailure(licenses, hash, now)
         IN IF hash \notin DOMAIN licenses
              THEN Return(Invalid(failure))
            ELSE IF failure # ""
              THEN Commit([licenses EXCEPT ![hash] = CountUse(@)], Invalid(failure))
            ELSE Commit([licenses EXCEPT ![hash] = CountUse(@)],
                        Reply(200, [valid |-> TRUE,
                                    customerId |-> licenses[hash].customerId,
                                    expirationDate |-> licenses[hash].expirationDate,
                                    type |-> licenses[hash].type]))

\* POST /api/licenses/validate  (server.js:166-204)
PostValidate(licenseKey) ==
  /\ req' = [op |-> "validate", licenseKey |-> licenseKey]
  /\ UNCHANGED now
  /\ IF licenseKey = ""
       THEN Return(Reply(400, [valid |-> FALSE, reason |-> "License key not provided"]))
       ELSE
         LET hash == hashLicense(licenseKey)
             failure == LicenseFailure(licenses, hash, now)
         IN IF failure # ""
              THEN Return(Invalid(failure))
              ELSE Commit([licenses EXCEPT ![hash] = CountUse(@)],
                          Reply(200, [valid |-> TRUE,
                                      customerId |-> licenses[hash].customerId,
                                      expirationDate |-> licenses[hash].expirationDate,
                                      type |-> licenses[hash].type]))

\* POST /api/licenses/:hash/users  (server.js:208-244)
PostLicenseUsers(hash, username, role) ==
  /\ req' = [op |-> "addUser", hash |-> hash, username |-> username, role |-> role]
  /\ UNCHANGED now
  /\ IF hash \notin DOMAIN licenses
       THEN Return(NotFound("License not found"))
       ELSE
         LET \* if (!license.users) license.users = []
             users == IF licenses[hash].users = None THEN <<>> ELSE licenses[hash].users[1]
             user == NewUser(username, role, now)
         IN IF UserExists(users, username)
              THEN /\ licenses' = [licenses EXCEPT ![hash].users = Some(users)]
                   /\ res' = Reply(400, [error |-> "User already exists in this license"])
                   /\ UNCHANGED <<file, inbox, writable>>
              ELSE /\ Len(users) < MaxUsers
                   /\ Commit([licenses EXCEPT ![hash].users = Some(Append(users, user))],
                             Reply(201, [success |-> TRUE, user |-> user]))

\* PUT /api/licenses/:hash/users/:username  (server.js:267-297)
PutLicenseUser(hash, username, isActive) ==
  /\ req' = [op |-> "setUserActive", hash |-> hash, username |-> username,
             isActive |-> isActive]
  /\ UNCHANGED now
  /\ IF hash \notin DOMAIN licenses
       THEN Return(NotFound("License not found"))
     ELSE IF licenses[hash].users = None
       THEN Return(NotFound("Users not found"))
     ELSE
       LET users == licenses[hash].users[1]
           i == FindUserIndex(users, username)
       IN IF i = 0
            THEN Return(NotFound("User not found in license"))
            ELSE
              LET user == WithActive(users[i], isActive) IN
              Commit([licenses EXCEPT ![hash].users = Some([users EXCEPT ![i] = user])],
                     Reply(200, [success |-> TRUE, user |-> user]))

\* DELETE /api/licenses/:hash/users/:username  (server.js:300-325)
DeleteLicenseUser(hash, username) ==
  /\ req' = [op |-> "removeUser", hash |-> hash, username |-> username]
  /\ UNCHANGED now
  /\ IF hash \notin DOMAIN licenses
       THEN Return(NotFound("License not found"))
     ELSE IF licenses[hash].users = None
       THEN Return(NotFound("Users not found"))
     ELSE
       LET users == licenses[hash].users[1]
           userIndex == FindUserIndex(users, username)
       IN IF userIndex = 0
            THEN Return(NotFound("User not found in license"))
            ELSE Commit([licenses EXCEPT ![hash].users = Some(SpliceOut(users, userIndex))],
                        Reply(200, [success |-> TRUE]))

\* POST /api/verify-license  (server.js:328-411)
PostVerifyLicense(licenseKey, deviceId) ==
  /\ req' = [op |-> "verifyLicense", licenseKey |-> licenseKey, deviceId |-> deviceId]
  /\ UNCHANGED now
  /\ IF licenseKey = "" \/ deviceId = ""
       THEN Return(Reply(400, [valid |-> FALSE,
                               reason |-> "License key and device ID are required"]))
       ELSE
         LET hash == hashLicense(licenseKey)
             failure == LicenseFailure(licenses, hash, now)
         IN IF failure # ""
              THEN Return(Invalid(failure))
              ELSE
                LET license == licenses[hash]
                    bound == BindDevice(license.boundDeviceId, deviceId)
                IN IF bound = None
                     THEN Return(Invalid("License is bound to a different device"))
                     ELSE Commit([licenses EXCEPT ![hash].boundDeviceId = bound],
                                 Reply(200, [valid |-> TRUE,
                                             licenseName |-> "VetCare License",
                                             expirationDate |-> license.expirationDate,
                                             boundDeviceId |-> bound[1],
                                             remainingDays |->
                                               RemainingDays(NewDate(license.expirationDate),
                                                             now)]))

\* POST /api/verify-user-license  (server.js:413-506)
PostVerifyUserLicense(username, licenseKey) ==
  /\ req' = [op |-> "verifyUser", username |-> username, licenseKey |-> licenseKey]
  /\ UNCHANGED now
  /\ IF username = "" \/ licenseKey = ""
       THEN Return(Reply(400, [valid |-> FALSE,
                               reason |-> "Username and license key are required"]))
       ELSE
         LET hash == hashLicense(licenseKey)
             failure == LicenseFailure(licenses, hash, now)
         IN IF failure # ""
              THEN Return(Invalid(failure))
            ELSE IF UserFailure(licenses[hash], username) # ""
              THEN Return(Invalid(UserFailure(licenses[hash], username)))
            ELSE
              LET license == licenses[hash]
                  user == FindUser(license.users[1], username)[1]
                  logged == [license EXCEPT
                               !.loginHistory = Some(PushLogin(@, LoginEntry(username, now)))]
              IN Commit([licenses EXCEPT ![hash] = CountUse(logged)],
                        Reply(200, [valid |-> TRUE,
                                    customerId |-> license.customerId,
                                    expirationDate |-> license.expirationDate,
                                    type |-> license.type,
                                    user |-> [username |-> user.username,
                                              role |-> user.role]]))

\* PutDeactivate that deactivates every license of the registry
PutDeactivateEvery(hash) ==
  /\ req' = [op |-> "deactivate", hash |-> hash]
  /\ UNCHANGED now
  /\ IF hash \notin DOMAIN licenses
       THEN Return(NotFound("License not found"))
       ELSE Commit([h \in DOMAIN licenses |-> [licenses[h] EXCEPT !.isActive = FALSE]],
                   Reply(200, [success |-> TRUE, hash |-> hash,
                               license |-> [licenses[hash] EXCEPT !.isActive = FALSE]]))

\* PUT /api/licenses/:hash/deactivate  (server.js:509-526)
PutDeactivate(hash) ==
  /\ req' = [op |-> "deactivate", hash |-> hash]
  /\ UNCHANGED now
  /\ IF hash \notin DOMAIN licenses
       THEN Return(NotFound("License not found"))
       ELSE Commit([licenses EXCEPT ![hash].isActive = FALSE],
                   Reply(200, [success |-> TRUE, hash |-> hash,
                               license |-> [licenses[hash] EXCEPT !.isActive = FALSE]]))

\* PutActivate that starts the validity of the license again
PutActivateRenews(hash) ==
  /\ req' = [op |-> "activate", hash |-> hash]
  /\ UNCHANGED now
  /\ IF hash \notin DOMAIN licenses
       THEN Return(NotFound("License not found"))
       ELSE LET renewed ==
                  [licenses[hash] EXCEPT
                     !.isActive = TRUE,
                     !.created = toISOString(now),
                     !.expirationDate =
                        toISOString(ExpirationDate(now, licenses[hash].validityDays))]
            IN Commit([licenses EXCEPT ![hash] = renewed],
                      Reply(200, [success |-> TRUE, hash |-> hash, license |-> renewed]))

\* PUT /api/licenses/:hash/activate  (server.js:529-546)
PutActivate(hash) ==
  /\ req' = [op |-> "activate", hash |-> hash]
  /\ UNCHANGED now
  /\ IF hash \notin DOMAIN licenses
       THEN Return(NotFound("License not found"))
       ELSE Commit([licenses EXCEPT ![hash].isActive = TRUE],
                   Reply(200, [success |-> TRUE, hash |-> hash,
                               license |-> [licenses[hash] EXCEPT !.isActive = TRUE]]))

\* PutExtend that refuses only a daysToAdd that is absent or 0
PutExtendAcceptsNegative(hash, daysToAdd) ==
  /\ req' = [op |-> "extend", hash |-> hash, daysToAdd |-> daysToAdd]
  /\ UNCHANGED now
  /\ IF daysToAdd = None \/ daysToAdd[1] = 0
       THEN Return(Reply(400, [error |-> "License hash and positive daysToAdd are required"]))
     ELSE IF hash \notin DOMAIN licenses
       THEN Return(NotFound("License not found"))
     ELSE
       LET license == licenses[hash]
           currentExpiry == NewDate(license.expirationDate)
           newExpiry == currentExpiry + daysToAdd[1] * DayLength
           extended == [license EXCEPT !.expirationDate = toISOString(newExpiry),
                                       !.validityDays = @ + daysToAdd[1]]
       IN Commit([licenses EXCEPT ![hash] = extended],
                 Reply(200, [success |-> TRUE, hash |-> hash, license |-> extended]))

\* PutExtend with the days added to the present time instead of the expiration
PutExtendFromNow(hash, daysToAdd) ==
  /\ req' = [op |-> "extend", hash |-> hash, daysToAdd |-> daysToAdd]
  /\ UNCHANGED now
  /\ IF daysToAdd = None \/ daysToAdd[1] = 0 \/ daysToAdd[1] <= 0
       THEN Return(Reply(400, [error |-> "License hash and positive daysToAdd are required"]))
     ELSE IF hash \notin DOMAIN licenses
       THEN Return(NotFound("License not found"))
     ELSE
       LET license == licenses[hash]
           newExpiry == now + daysToAdd[1] * DayLength
           extended == [license EXCEPT !.expirationDate = toISOString(newExpiry),
                                       !.validityDays = @ + daysToAdd[1]]
       IN Commit([licenses EXCEPT ![hash] = extended],
                 Reply(200, [success |-> TRUE, hash |-> hash, license |-> extended]))

\* PUT /api/licenses/:hash/extend  (server.js:549-582); daysToAdd is None when
\* the body has none, and !daysToAdd holds of None and of 0
PutExtend(hash, daysToAdd) ==
  /\ req' = [op |-> "extend", hash |-> hash, daysToAdd |-> daysToAdd]
  /\ UNCHANGED now
  /\ IF daysToAdd = None \/ daysToAdd[1] = 0 \/ daysToAdd[1] <= 0
       THEN Return(Reply(400, [error |-> "License hash and positive daysToAdd are required"]))
     ELSE IF hash \notin DOMAIN licenses
       THEN Return(NotFound("License not found"))
     ELSE
       LET license == licenses[hash]
           currentExpiry == NewDate(license.expirationDate)
           newExpiry == currentExpiry + daysToAdd[1] * DayLength
           extended == [license EXCEPT !.expirationDate = toISOString(newExpiry),
                                       !.validityDays = @ + daysToAdd[1]]
       IN Commit([licenses EXCEPT ![hash] = extended],
                 Reply(200, [success |-> TRUE, hash |-> hash, license |-> extended]))

\* DeleteLicense that empties the registry
DeleteLicenseAll(hash) ==
  /\ req' = [op |-> "delete", hash |-> hash]
  /\ UNCHANGED now
  /\ IF hash \notin DOMAIN licenses
       THEN Return(NotFound("License not found"))
       ELSE Commit([h \in {} |-> licenses[h]],
                   Reply(200, [success |-> TRUE]))

\* DELETE /api/licenses/:hash  (server.js:585-600)
DeleteLicense(hash) ==
  /\ req' = [op |-> "delete", hash |-> hash]
  /\ UNCHANGED now
  /\ IF hash \notin DOMAIN licenses
       THEN Return(NotFound("License not found"))
       ELSE Commit([h \in DOMAIN licenses \ {hash} |-> licenses[h]],
                   Reply(200, [success |-> TRUE]))

---------------------------------------------------------------------------
(* Specifications *)

\* the model's bound on usageCount: a validation of a license at the bound is not taken
UsageBelow(licenseKey, cap) ==
  hashLicense(licenseKey) \in DOMAIN licenses
    => licenses[hashLicense(licenseKey)].usageCount < cap

\* the model's bound on validityDays: an extension beyond the bound is not taken
ValidityBelow(hash, daysToAdd, cap) ==
  (hash \in DOMAIN licenses /\ daysToAdd # None)
    => licenses[hash].validityDays + daysToAdd[1] <= cap

\* Spec: every operation that changes the registry and the three validations,
\* on one license key and one addable username.
Next ==
  \/ Tick
  \/ Await
  \/ Restart
  \/ \E c \in CustomerIds \cup {""}, t \in Types, v \in ValidityInputs, s \in Suffixes :
       Idle /\ PostLicenses(c, t, v, s)
  \/ \E k \in KeyInputs : Idle /\ UsageBelow(k, MaxUsage) /\ PostValidate(k)
  \/ \E k \in KeyInputs, d \in Devices \cup {""} : Idle /\ PostVerifyLicense(k, d)
  \/ \E u \in Usernames \cup {""}, k \in KeyInputs :
       Idle /\ UsageBelow(k, MaxUsage) /\ PostVerifyUserLicense(u, k)
  \/ \E h \in HashInputs, u \in AddableUsernames, r \in Roles :
       Idle /\ PostLicenseUsers(h, u, r)
  \/ \E h \in HashInputs, u \in Usernames, a \in BOOLEAN :
       Idle /\ PutLicenseUser(h, u, a)
  \/ \E h \in HashInputs, u \in Usernames : Idle /\ DeleteLicenseUser(h, u)
  \/ \E h \in HashInputs : Idle /\ PutDeactivate(h)
  \/ \E h \in HashInputs : Idle /\ PutActivate(h)
  \/ \E h \in HashInputs, d \in Optional(DaysToAddInputs) :
       Idle /\ ValidityBelow(h, d, MaxValidity) /\ PutExtend(h, d)
  \/ \E h \in HashInputs : Idle /\ DeleteLicense(h)

Spec == Init /\ [][Next]_vars

\* SpecUsers: the user operations and ValidateUser on one issued license, with
\* three usernames.
TheKey == generateLicenseKey("c1", "00")

InitUsers ==
  /\ licenses = [h \in {hashLicense(TheKey)} |->
                   NewLicense(TheKey, "c1", DefaultType, 1, 0)]
  /\ file = saveLicenses(licenses)
  /\ now = 0
  /\ req = NoRequest
  /\ res = NoResponse
  /\ inbox = <<>>
  /\ writable = TRUE

NextUsers ==
  \/ Await
  \/ Restart
  \/ \E h \in HashInputs, u \in ManyUsernames, r \in Roles :
       Idle /\ PostLicenseUsers(h, u, r)
  \/ \E h \in HashInputs, u \in ManyUsernames, a \in BOOLEAN :
       Idle /\ PutLicenseUser(h, u, a)
  \/ \E h \in HashInputs, u \in ManyUsernames : Idle /\ DeleteLicenseUser(h, u)
  \/ \E u \in ManyUsernames \cup {""}, k \in KeyInputs :
       Idle /\ UsageBelow(k, MaxUsage) /\ PostVerifyUserLicense(u, k)

SpecUsers == InitUsers /\ [][NextUsers]_vars

\* SpecHist: the logins of one user of one issued license, up to HistSlack logins
\* beyond HistoryLimit, with one day passing at some moment.
InitHist ==
  /\ now = (MaxDays - 1) * DayLength
  /\ licenses = [h \in {hashLicense(TheKey)} |->
                   [NewLicense(TheKey, "c1", DefaultType, 1, now) EXCEPT
                      !.users = Some(<<NewUser("u1", DefaultRole, now)>>)]]
  /\ file = saveLicenses(licenses)
  /\ req = NoRequest
  /\ res = NoResponse
  /\ inbox = <<>>
  /\ writable = TRUE

NextHist ==
  \/ Tick
  \/ Await
  \/ Restart
  \/ \E u \in Usernames, k \in AllKeys :
       Idle /\ UsageBelow(k, HistoryLimit + HistSlack) /\ PostVerifyUserLicense(u, k)

SpecHist == InitHist /\ [][NextHist]_vars

\* SpecToggle: the three validations and the activation toggle on one issued
\* license with one user, while days pass; the license is deactivated only
\* while it has not expired.
InitToggle ==
  /\ now = 0
  /\ licenses = [h \in {hashLicense(TheKey)} |->
                   [NewLicense(TheKey, "c1", DefaultType, 1, now) EXCEPT
                      !.users = Some(<<NewUser("u1", "admin", now)>>)]]
  /\ file = saveLicenses(licenses)
  /\ req = NoRequest
  /\ res = NoResponse
  /\ inbox = <<>>
  /\ writable = TRUE

NextToggle ==
  \/ Tick
  \/ Await
  \/ Restart
  \/ \E k \in AllKeys : Idle /\ UsageBelow(k, MaxUsage) /\ PostValidate(k)
  \/ \E k \in AllKeys, d \in Devices : Idle /\ PostVerifyLicense(k, d)
  \/ \E u \in Usernames, k \in AllKeys :
       Idle /\ UsageBelow(k, MaxUsage) /\ PostVerifyUserLicense(u, k)
  \/ \E h \in HashInputs :
       Idle /\ h \in DOMAIN licenses /\ ~IsExpired(licenses[h], now) /\ PutDeactivate(h)
  \/ \E h \in HashInputs : Idle /\ PutActivate(h)

SpecToggle == InitToggle /\ [][NextToggle]_vars

\* SpecIssue: Issue, Lookup and Delete with two license keys of one customer,
\* the licenses being used and deactivated in between, while days pass.
IssueKeys == {generateLicenseKey(c, s) : c \in CustomerIds, s \in IssueSuffixes}
IssueHashes == {hashLicense(k) : k \in IssueKeys \cup {UnknownKey}}

InitIssue == Init

NextIssue ==
  \/ Tick
  \/ Await
  \/ Restart
  \/ \E c \in CustomerIds \cup {""}, t \in Types, v \in ValidityInputs, s \in IssueSuffixes :
       Idle /\ PostLicenses(c, t, v, s)
  \/ \E h \in IssueHashes : Idle /\ GetLicense(h)
  \/ \E k \in IssueKeys : Idle /\ UsageBelow(k, MaxUsage) /\ PostValidate(k)
  \/ \E h \in IssueHashes : Idle /\ PutDeactivate(h)
  \/ \E h \in IssueHashes : Idle /\ DeleteLicense(h)

SpecIssue == InitIssue /\ [][NextIssue]_vars

\* SpecExtend: Extend by -1, 0, 1 or 2 days on one license key that is issued,
\* used, bound, deactivated and deleted, while days pass.
NextExtend ==
  \/ Tick
  \/ Await
  \/ Restart
  \/ \E c \in CustomerIds, t \in Types, v \in ValidityInputs, s \in Suffixes :
       Idle /\ PostLicenses(c, t, v, s)
  \/ \E k \in AllKeys : Idle /\ UsageBelow(k, MaxUsage) /\ PostValidate(k)
  \/ \E k \in AllKeys, d \in Devices : Idle /\ PostVerifyLicense(k, d)
  \/ \E h \in HashInputs : Idle /\ PutDeactivate(h)
  \/ \E h \in HashInputs, d \in Optional(ExtendInputs) :
       Idle /\ ValidityBelow(h, d, MaxExtended) /\ PutExtend(h, d)
  \/ \E h \in HashInputs : Idle /\ DeleteLicense(h)

SpecExtend == Init /\ [][NextExtend]_vars

\* SpecTwo: every operation on two license keys of one customer, with one
\* username, one device and extensions by one day, on one day.
NextTwo ==
  \/ Await
  \/ Restart
  \/ \E c \in CustomerIds \cup {""}, t \in Types, s \in IssueSuffixes :
       Idle /\ PostLicenses(c, t, 1, s)
  \/ \E h \in IssueHashes : Idle /\ GetLicense(h)
  \/ \E k \in IssueKeys : Idle /\ UsageBelow(k, MaxUsageTwo) /\ PostValidate(k)
  \/ \E k \in IssueKeys, d \in {"A"} : Idle /\ PostVerifyLicense(k, d)
  \/ \E u \in AddableUsernames, k \in IssueKeys :
       Idle /\ UsageBelow(k, MaxUsageTwo) /\ PostVerifyUserLicense(u, k)
  \/ \E h \in IssueHashes, u \in AddableUsernames :
       Idle /\ PostLicenseUsers(h, u, DefaultRole)
  \/ \E h \in IssueHashes, u \in AddableUsernames, a \in BOOLEAN :
       Idle /\ PutLicenseUser(h, u, a)
  \/ \E h \in IssueHashes, u \in AddableUsernames : Idle /\ DeleteLicenseUser(h, u)
  \/ \E h \in IssueHashes : Idle /\ PutDeactivate(h)
  \/ \E h \in IssueHashes : Idle /\ PutActivate(h)
  \/ \E h \in IssueHashes :
       Idle /\ ValidityBelow(h, Some(1), MaxValidity) /\ PutExtend(h, Some(1))
  \/ \E h \in IssueHashes : Idle /\ DeleteLicense(h)

SpecTwo == Init /\ [][NextTwo]_vars

\* SpecStats: Stats over two license keys issued for 1, 30 or 31 days, activated
\* and deactivated, while days pass.
NextStats ==
  \/ Tick
  \/ Await
  \/ Restart
  \/ \E c \in CustomerIds, t \in Types, v \in StatsValidityInputs, s \in IssueSuffixes :
       Idle /\ PostLicenses(c, t, v, s)
  \/ Idle /\ GetStats
  \/ \E h \in IssueHashes : Idle /\ PutDeactivate(h)
  \/ \E h \in IssueHashes : Idle /\ PutActivate(h)
  \/ \E h \in IssueHashes : Idle /\ DeleteLicense(h)

SpecStats == Init /\ [][NextStats]_vars

\* SpecConc: up to MaxInbox counted validations of one license are in flight
\* at a time.  The handlers are synchronous functions without await or
\* callback (server.js:166-204, 413-506; saveLicenses uses writeFileSync), so
\* the event loop runs the handler of one received request to its response
\* before it starts the handler of another, in an order the clients do not
\* control.
ConcRequests ==
  {[op |-> "validate", licenseKey |-> k] : k \in AllKeys \cup {UnknownKey}}
    \cup {[op |-> "verifyUser", username |-> u, licenseKey |-> k] :
             u \in Usernames, k \in AllKeys \cup {UnknownKey}}

\* the received requests whose handler has not run
Waiting == {i \in 1..Len(inbox) : inbox[i].response = None}

\* a request is received while others wait
Receive(r) ==
  /\ Idle
  /\ Len(inbox) < MaxInbox
  /\ inbox' = Append(inbox, [request |-> r, response |-> None])
  /\ UNCHANGED <<licenses, file, now, req, res, writable>>

\* the event loop runs the handler of one waiting request, whole
Serve(i) ==
  /\ Idle
  /\ i \in Waiting
  /\ IF inbox[i].request.op = "validate"
       THEN PostValidate(inbox[i].request.licenseKey)
       ELSE PostVerifyUserLicense(inbox[i].request.username,
                                  inbox[i].request.licenseKey)

\* the response goes to the client whose request was handled
Respond ==
  /\ ~Idle
  /\ \E i \in Waiting :
       /\ inbox[i].request = req
       /\ \A j \in Waiting : inbox[j].request = req => i <= j
       /\ inbox' = [inbox EXCEPT ![i].response = Some(res)]
  /\ req' = NoRequest
  /\ res' = NoResponse
  /\ UNCHANGED <<licenses, file, now, writable>>

NextConc ==
  \/ \E r \in ConcRequests : Receive(r)
  \/ \E i \in 1..MaxInbox : Serve(i)
  \/ Respond

SpecConc == InitToggle /\ [][NextConc]_vars

\* SpecFail: every operation that changes the registry, on one license key,
\* one username and one device on one day, while the file becomes unwritable
\* and writable again.
Break ==
  /\ Idle
  /\ writable
  /\ writable' = FALSE
  /\ UNCHANGED <<licenses, file, now, req, res, inbox>>

Repair ==
  /\ Idle
  /\ ~writable
  /\ writable' = TRUE
  /\ UNCHANGED <<licenses, file, now, req, res, inbox>>

NextFail ==
  \/ Await
  \/ Restart
  \/ Break
  \/ Repair
  \/ \E c \in CustomerIds, s \in Suffixes :
       Idle /\ PostLicenses(c, DefaultType, 1, s)
  \/ \E k \in AllKeys : Idle /\ UsageBelow(k, MaxUsageTwo) /\ PostValidate(k)
  \/ \E k \in AllKeys, d \in {"A"} : Idle /\ PostVerifyLicense(k, d)
  \/ \E u \in AddableUsernames, k \in AllKeys :
       Idle /\ UsageBelow(k, MaxUsageTwo) /\ PostVerifyUserLicense(u, k)
  \/ \E h \in HashInputs, u \in AddableUsernames :
       Idle /\ PostLicenseUsers(h, u, DefaultRole)
  \/ \E h \in HashInputs, u \in AddableUsernames, a \in BOOLEAN :
       Idle /\ PutLicenseUser(h, u, a)
  \/ \E h \in HashInputs, u \in AddableUsernames : Idle /\ DeleteLicenseUser(h, u)
  \/ \E h \in HashInputs : Idle /\ PutDeactivate(h)
  \/ \E h \in HashInputs : Idle /\ PutActivate(h)
  \/ \E h \in HashInputs :
       Idle /\ ValidityBelow(h, Some(1), MaxValidity) /\ PutExtend(h, Some(1))
  \/ \E h \in HashInputs : Idle /\ DeleteLicense(h)

SpecFail == Init /\ [][NextFail]_vars

\* SpecLogins: the validations by key and by user of one license, up to
\* HistSlack counted validations beyond HistoryLimit, on one day; the license
\* is deleted, issued again and given its user again.
NextLogins ==
  \/ Await
  \/ Restart
  \/ \E c \in CustomerIds, s \in Suffixes :
       Idle /\ PostLicenses(c, DefaultType, 1, s)
  \/ \E k \in AllKeys :
       Idle /\ UsageBelow(k, HistoryLimit + HistSlack) /\ PostValidate(k)
  \/ \E u \in Usernames, k \in AllKeys :
       Idle /\ UsageBelow(k, HistoryLimit + HistSlack) /\ PostVerifyUserLicense(u, k)
  \/ \E h \in HashInputs, u \in AddableUsernames :
       Idle /\ PostLicenseUsers(h, u, DefaultRole)
  \/ \E h \in HashInputs : Idle /\ DeleteLicense(h)

SpecLogins == InitHist /\ [][NextLogins]_vars

---------------------------------------------------------------------------
(* Vocabulary of the properties *)

\* a step that handles a request of the given kind
Handles(op) == Idle /\ req'.op = op

\* the response is a validation result
IsValid(r) == "valid" \in DOMAIN r.body /\ r.body.valid = TRUE
IsInvalid(r) == "valid" \in DOMAIN r.body /\ r.body.valid = FALSE
HasReason(r, reason) == r.status = 200 /\ r.body = [valid |-> FALSE, reason |-> reason]

\* the license is in the registry, not expired at t and active
Usable(l, hash, t) ==
  /\ hash \in DOMAIN l
  /\ ~(NewDate(l[hash].expirationDate) < t)
  /\ l[hash].isActive

Expired(l, hash, t) == hash \in DOMAIN l /\ NewDate(l[hash].expirationDate) < t

UsersOf(license) == IF license.users = None THEN <<>> ELSE license.users[1]
HistoryOf(license) == IF license.loginHistory = None THEN <<>> ELSE license.loginHistory[1]
UsernamesOf(license) == {UsersOf(license)[i].username : i \in 1..Len(UsersOf(license))}

---------------------------------------------------------------------------
(* C1: ValidateByKey checks, in this order, that the key is given, that the
   license exists, that it is not expired and that it is active, and answers
   with the reason of the first check that fails; an expired license is
   reported as expired whether it is active or not. *)
C1_ValidateOrder ==
  [][Handles("validate") =>
       LET k == req'.licenseKey
           h == hashLicense(k)
       IN /\ k = "" =>
               res' = Reply(400, [valid |-> FALSE, reason |-> "License key not provided"])
          /\ (k # "" /\ h \notin DOMAIN licenses) => HasReason(res', "License not found")
          /\ (k # "" /\ Expired(licenses, h, now)) => HasReason(res', "License expired")
          /\ (k # "" /\ h \in DOMAIN licenses /\ ~Expired(licenses, h, now)
                /\ ~licenses[h].isActive) => HasReason(res', "License is inactive")
          /\ (k # "" /\ Usable(licenses, h, now)) => IsValid(res')]_vars

\* an expired and inactive license has been reported as expired
C1_Witness ==
  /\ req.op = "validate"
  /\ HasReason(res, "License expired")
  /\ ~licenses[hashLicense(req.licenseKey)].isActive

(* C2: on a usable license ValidateWithDevice binds an unbound license to the
   device and succeeds, refuses any other device with the device-mismatch
   reason and leaves the binding, and keeps succeeding for the bound device. *)
C2_DeviceBinding ==
  [][(/\ Handles("verifyLicense")
      /\ req'.licenseKey # ""
      /\ req'.deviceId # ""
      /\ Usable(licenses, hashLicense(req'.licenseKey), now)) =>
       LET h == hashLicense(req'.licenseKey)
           d == req'.deviceId
           b == licenses[h].boundDeviceId
       IN /\ b = None =>
               /\ IsValid(res')
               /\ res'.body.boundDeviceId = d
               /\ licenses'[h].boundDeviceId = Some(d)
          /\ (b # None /\ b # Some(d)) =>
               /\ HasReason(res', "License is bound to a different device")
               /\ licenses'[h].boundDeviceId = b
          /\ b = Some(d) =>
               /\ IsValid(res')
               /\ res'.body.boundDeviceId = d
               /\ licenses'[h].boundDeviceId = b]_vars

\* a license bound to A has been validated from A on a later day than its issue
C2_Witness ==
  /\ req.op = "verifyLicense"
  /\ IsValid(res)
  /\ req.deviceId = "A"
  /\ licenses[hashLicense(req.licenseKey)].boundDeviceId = Some("A")
  /\ NewDate(licenses[hashLicense(req.licenseKey)].created) < now

(* C3: once a record's boundDeviceId is set, no operation changes or clears it
   while the record is in the registry. *)
C3_BindingImmutable ==
  [][\A h \in DOMAIN licenses :
       (licenses[h].boundDeviceId # None /\ h \in DOMAIN licenses') =>
         licenses'[h].boundDeviceId = licenses[h].boundDeviceId]_vars

\* a bound license has been refused to another device and is still bound
C3_Witness ==
  /\ req.op = "verifyLicense"
  /\ HasReason(res, "License is bound to a different device")
  /\ licenses[hashLicense(req.licenseKey)].boundDeviceId = Some("B")

(* C4: ValidateByKey on a usable license answers valid:true with the license's
   customerId, expirationDate and type, and adds exactly 1 to its usageCount. *)
C4_ValidateCounts ==
  [][(/\ Handles("validate")
      /\ req'.licenseKey # ""
      /\ Usable(licenses, hashLicense(req'.licenseKey), now)) =>
       LET h == hashLicense(req'.licenseKey) IN
         /\ res' = Reply(200, [valid |-> TRUE,
                               customerId |-> licenses[h].customerId,
                               expirationDate |-> licenses[h].expirationDate,
                               type |-> licenses[h].type])
         /\ licenses'[h].usageCount = licenses[h].usageCount + 1]_vars

\* the second successful ValidateByKey of a license
C4_Witness ==
  /\ req.op = "validate"
  /\ IsValid(res)
  /\ licenses[hashLicense(req.licenseKey)].usageCount = 2
  /\ licenses[hashLicense(req.licenseKey)].loginHistory = None

(* C5 as claimed: every validation answering valid:true, by ValidateByKey,
   ValidateWithDevice or ValidateUser, adds 1 to the usageCount of the license. *)
C5_EveryValidCounts ==
  [][(/\ Idle
      /\ req'.op \in {"validate", "verifyLicense", "verifyUser"}
      /\ IsValid(res')) =>
       LET h == hashLicense(req'.licenseKey) IN
         licenses'[h].usageCount = licenses[h].usageCount + 1]_vars

(* C5 as amended: a valid:true answer of ValidateByKey or ValidateUser adds 1 to
   the usageCount of the license; a valid:true answer of ValidateWithDevice
   leaves the usageCount as it was. *)
C5_KeyAndUserCount ==
  [][(Idle /\ IsValid(res')) =>
       LET h == hashLicense(req'.licenseKey) IN
         /\ req'.op \in {"validate", "verifyUser"} =>
              licenses'[h].usageCount = licenses[h].usageCount + 1
         /\ req'.op = "verifyLicense" =>
              licenses'[h].usageCount = licenses[h].usageCount]_vars

\* a ValidateWithDevice has succeeded on a license never counted
C5_Witness ==
  /\ req.op = "verifyLicense"
  /\ IsValid(res)
  /\ licenses[hashLicense(req.licenseKey)].usageCount = 0

(* C6: a validation answering valid:false, whichever of the three, leaves the
   registry and the persisted file as they were. *)
C6_InvalidMutatesNothing ==
  [][(/\ Idle
      /\ req'.op \in {"validate", "verifyLicense", "verifyUser"}
      /\ IsInvalid(res')) =>
       (licenses' = licenses /\ file' = file)]_vars

\* a deactivated user has been refused on a license with a saved file
C6_Witness ==
  /\ req.op = "verifyUser"
  /\ HasReason(res, "User is deactivated")
  /\ file = saveLicenses(licenses)
  /\ file # {}

(* C7: ValidateUser checks, in this order, that username and key are given,
   that the license exists, is not expired, is active, has users, has the
   username among them and that this user is active, and answers with the
   reason of the first check that fails. *)
C7_ValidateUserOrder ==
  [][Handles("verifyUser") =>
       LET u == req'.username
           k == req'.licenseKey
           h == hashLicense(k)
           given == u # "" /\ k # ""
           usable == given /\ Usable(licenses, h, now)
           users == UsersOf(licenses[h])
           assigned == usable /\ u \in UsernamesOf(licenses[h])
       IN /\ ~given =>
               res' = Reply(400, [valid |-> FALSE,
                                  reason |-> "Username and license key are required"])
          /\ (given /\ h \notin DOMAIN licenses) => HasReason(res', "License not found")
          /\ (given /\ Expired(licenses, h, now)) => HasReason(res', "License expired")
          /\ (given /\ h \in DOMAIN licenses /\ ~Expired(licenses, h, now)
                /\ ~licenses[h].isActive) => HasReason(res', "License is inactive")
          /\ (usable /\ users = <<>>) =>
               HasReason(res', "No users assigned to this license")
          /\ (usable /\ users # <<>> /\ ~assigned) =>
               HasReason(res', "User not assigned to this license")
          /\ (assigned /\ \E i \in 1..Len(users) :
                            users[i].username = u /\ ~users[i].isActive) =>
               HasReason(res', "User is deactivated")
          /\ (assigned /\ \A i \in 1..Len(users) :
                            users[i].username = u => users[i].isActive) =>
               IsValid(res')]_vars

\* a username that is not assigned, on an expired license with users: expired
C7_Witness ==
  /\ req.op = "verifyUser"
  /\ HasReason(res, "License expired")
  /\ UsersOf(licenses[hashLicense(req.licenseKey)]) # <<>>
  /\ req.username \notin UsernamesOf(licenses[hashLicense(req.licenseKey)])

(* C8: a successful ValidateUser puts exactly one entry {username, success:true}
   at the end of the loginHistory, adds exactly 1 to usageCount, and answers
   valid:true with the license's customerId, expirationDate and type and the
   user's username and role as AddUser stored them. *)
C8_ValidateUserSuccess ==
  [][/\ (Handles("verifyUser") /\ IsValid(res')) =>
          LET h == hashLicense(req'.licenseKey)
              old == HistoryOf(licenses[h])
              new == HistoryOf(licenses'[h])
          IN /\ new[Len(new)] = [username |-> req'.username,
                                 timestamp |-> toISOString(now),
                                 success |-> TRUE]
             /\ Len(old) < HistoryLimit => new = Append(old, new[Len(new)])
             /\ licenses'[h].usageCount = licenses[h].usageCount + 1
             /\ \E i \in 1..Len(UsersOf(licenses[h])) :
                  /\ UsersOf(licenses[h])[i].username = req'.username
                  /\ res' = Reply(200, [valid |-> TRUE,
                                        customerId |-> licenses[h].customerId,
                                        expirationDate |-> licenses[h].expirationDate,
                                        type |-> licenses[h].type,
                                        user |-> [username |-> req'.username,
                                                  role |-> UsersOf(licenses[h])[i].role]])
     /\ (Handles("addUser") /\ res'.status = 201) =>
          LET users == UsersOf(licenses'[req'.hash]) IN
            /\ users[Len(users)].username = req'.username
            /\ users[Len(users)].role = req'.role]_vars

\* the second login of an admin, later than the first
C8_Witness ==
  /\ req.op = "verifyUser"
  /\ IsValid(res)
  /\ res.body.user.role = "admin"
  /\ Len(HistoryOf(licenses[hashLicense(req.licenseKey)])) = 2
  /\ HistoryOf(licenses[hashLicense(req.licenseKey)])[1].timestamp = toISOString(0)
  /\ HistoryOf(licenses[hashLicense(req.licenseKey)])[2].timestamp = toISOString(DayLength)

(* C9: the loginHistory of a license never has more than 100 entries; a
   successful ValidateUser on a history of 100 entries drops the oldest entry
   and keeps the other 99 in their order, followed by the new entry. *)
C9_HistoryBounded ==
  [][/\ \A h \in DOMAIN licenses' : Len(HistoryOf(licenses'[h])) <= HistoryLimit
     /\ (/\ Handles("verifyUser")
         /\ IsValid(res')
         /\ Len(HistoryOf(licenses[hashLicense(req'.licenseKey)])) = HistoryLimit) =>
          LET h == hashLicense(req'.licenseKey) IN
            HistoryOf(licenses'[h]) =
              Tail(HistoryOf(licenses[h]))
                \o <<[username |-> req'.username,
                      timestamp |-> toISOString(now),
                      success |-> TRUE]>>]_vars

\* 102 logins: the history is full, its oldest entry is of an earlier day than its newest
C9_Witness ==
  /\ req.op = "verifyUser"
  /\ IsValid(res)
  /\ licenses[hashLicense(TheKey)].usageCount = HistoryLimit + 2
  /\ Len(HistoryOf(licenses[hashLicense(TheKey)])) = HistoryLimit
  /\ HistoryOf(licenses[hashLicense(TheKey)])[1].timestamp
       # HistoryOf(licenses[hashLicense(TheKey)])[HistoryLimit].timestamp

(* C10: AddUser with a username that is already among the license's users fails
   with 400 "User already exists" and leaves the users as they were; no license
   ever has two users with the same username. *)
C10_NoDuplicateUsers ==
  [][/\ (/\ Handles("addUser")
         /\ req'.hash \in DOMAIN licenses
         /\ req'.username \in UsernamesOf(licenses[req'.hash])) =>
          /\ res' = Reply(400, [error |-> "User already exists in this license"])
          /\ licenses' = licenses
          /\ file' = file
     /\ \A h \in DOMAIN licenses' :
          \A i, j \in 1..Len(UsersOf(licenses'[h])) :
            UsersOf(licenses'[h])[i].username = UsersOf(licenses'[h])[j].username
              => i = j]_vars

\* a second AddUser of a name has been refused on a license with two users
C10_Witness ==
  /\ req.op = "addUser"
  /\ res.status = 400
  /\ Len(UsersOf(licenses[req.hash])) = 2
  /\ req.username = UsersOf(licenses[req.hash])[1].username

---------------------------------------------------------------------------
\* C11: SetUserActive on an assigned user answers 200 and sets that user's
\* isActive to the requested value, leaving the user's other fields (role
\* included), the other users and the length of the list as they were; and
\* ValidateUser for an assigned user of an active, non-expired license is
\* decided by that isActive: false gives valid:false "User is deactivated",
\* true gives valid:true with the user's role.  So a deactivated user is refused
\* and a re-activated one is accepted again with the same role.
C11_UserToggle ==
  [][/\ (/\ Handles("setUserActive")
         /\ req'.hash \in DOMAIN licenses
         /\ req'.username \in UsernamesOf(licenses[req'.hash])) =>
           LET h == req'.hash
               before == UsersOf(licenses[h])
               after == UsersOf(licenses'[h])
               i == FindUserIndex(before, req'.username)
           IN /\ res'.status = 200
              /\ Len(after) = Len(before)
              /\ \A j \in 1..Len(before) : j # i => after[j] = before[j]
              /\ after[i].isActive = req'.isActive
              /\ after[i].role = before[i].role
              /\ after[i].username = before[i].username
              /\ after[i].addedAt = before[i].addedAt
     /\ (/\ Handles("verifyUser")
         /\ req'.licenseKey # ""
         /\ Usable(licenses, hashLicense(req'.licenseKey), now)
         /\ req'.username \in UsernamesOf(licenses[hashLicense(req'.licenseKey)])) =>
           LET users == UsersOf(licenses[hashLicense(req'.licenseKey)])
               user == users[FindUserIndex(users, req'.username)]
           IN IF user.isActive
                THEN /\ IsValid(res')
                     /\ res'.body.user = [username |-> user.username, role |-> user.role]
                ELSE HasReason(res', "User is deactivated")]_vars

\* a user who has logged in before is refused as deactivated, an admin
C11_Witness ==
  /\ req.op = "verifyUser"
  /\ HasReason(res, "User is deactivated")
  /\ \E i \in 1..Len(HistoryOf(licenses[hashLicense(req.licenseKey)])) :
       HistoryOf(licenses[hashLicense(req.licenseKey)])[i].username = req.username
  /\ \E i \in 1..Len(UsersOf(licenses[hashLicense(req.licenseKey)])) :
       /\ UsersOf(licenses[hashLicense(req.licenseKey)])[i].username = req.username
       /\ UsersOf(licenses[hashLicense(req.licenseKey)])[i].role = "admin"

---------------------------------------------------------------------------
\* C12 as stated: after RemoveUser of an assigned user, ValidateUser for that
\* user on the (active, non-expired) license is refused with the reason "User
\* not assigned to this license".  Refuted when the removed user was the only
\* one: the list is then empty and the reason is "No users assigned to this
\* license".
C12_RemovedIsNotAssigned ==
  [][(/\ Handles("removeUser")
      /\ req'.hash \in DOMAIN licenses
      /\ req'.username \in UsernamesOf(licenses[req'.hash])) =>
        UserFailure(licenses'[req'.hash], req'.username) =
          "User not assigned to this license"]_vars

\* C12: RemoveUser of an assigned user answers 200 and removes exactly that
\* user's entry: the list is one shorter, the entries before it keep their
\* place, the entries after it move up by one, unchanged, and the username is
\* no longer in the list.  ValidateUser for a username that is not in the list
\* of an active, non-expired license is refused: with "User not assigned to
\* this license" when the list has other users, with "No users assigned to
\* this license" when the list is empty (the removed user was the only one).
C12_RemoveUser ==
  [][/\ (/\ Handles("removeUser")
         /\ req'.hash \in DOMAIN licenses
         /\ req'.username \in UsernamesOf(licenses[req'.hash])) =>
           LET h == req'.hash
               before == UsersOf(licenses[h])
               after == UsersOf(licenses'[h])
               i == FindUserIndex(before, req'.username)
           IN /\ res' = Reply(200, [success |-> TRUE])
              /\ licenses'[h].users # None
              /\ Len(after) = Len(before) - 1
              /\ \A j \in 1..(i - 1) : after[j] = before[j]
              /\ \A j \in (i + 1)..Len(before) : after[j - 1] = before[j]
              /\ req'.username \notin UsernamesOf(licenses'[h])
              /\ UserFailure(licenses'[h], req'.username) =
                   IF after = <<>> THEN "No users assigned to this license"
                                   ELSE "User not assigned to this license"
     /\ (/\ Handles("verifyUser")
         /\ req'.username # ""
         /\ req'.licenseKey # ""
         /\ Usable(licenses, hashLicense(req'.licenseKey), now)
         /\ req'.username \notin UsernamesOf(licenses[hashLicense(req'.licenseKey)])) =>
           IF UsersOf(licenses[hashLicense(req'.licenseKey)]) = <<>>
             THEN HasReason(res', "No users assigned to this license")
             ELSE HasReason(res', "User not assigned to this license")]_vars

\* a user who has logged in is removed, the only user of the license, and is
\* then refused
C12_Witness ==
  /\ req.op = "verifyUser"
  /\ HasReason(res, "No users assigned to this license")
  /\ licenses[hashLicense(req.licenseKey)].users = Some(<<>>)
  /\ \E i \in 1..Len(HistoryOf(licenses[hashLicense(req.licenseKey)])) :
       HistoryOf(licenses[hashLicense(req.licenseKey)])[i].username = req.username

---------------------------------------------------------------------------
\* a validation request that carries its inputs
IsValidation(r) ==
  \/ r.op = "validate" /\ r.licenseKey # ""
  \/ r.op = "verifyLicense" /\ r.licenseKey # "" /\ r.deviceId # ""
  \/ r.op = "verifyUser" /\ r.licenseKey # "" /\ r.username # ""

\* C13 as stated: a license deactivated while it had not expired is refused by
\* the three validations with "License is inactive" at every call until it is
\* activated again.  Refuted when the license expires in the meantime: the
\* expiration check comes first and the reason becomes "License expired".
C13_InactiveUntilReactivated ==
  [][(/\ Idle
      /\ IsValidation(req')
      /\ hashLicense(req'.licenseKey) \in DOMAIN licenses
      /\ ~licenses[hashLicense(req'.licenseKey)].isActive) =>
        HasReason(res', "License is inactive")]_vars

\* C13: Deactivate and Activate of a license of the registry answer 200 and
\* change its isActive and nothing else, in that record or any other.  While
\* the license is inactive and has not expired, ValidateByKey,
\* ValidateWithDevice and ValidateUser answer valid:false "License is
\* inactive" and change nothing.  Once it is active again (and not expired)
\* ValidateByKey succeeds, ValidateWithDevice succeeds from the bound device or
\* when no device is bound, and ValidateUser succeeds for an assigned, active
\* user.
C13_LicenseToggle ==
  [][/\ (/\ Idle
         /\ req'.op \in {"deactivate", "activate"}
         /\ req'.hash \in DOMAIN licenses) =>
           /\ licenses' = [licenses EXCEPT ![req'.hash].isActive = (req'.op = "activate")]
           /\ res' = Reply(200, [success |-> TRUE, hash |-> req'.hash,
                                 license |-> licenses'[req'.hash]])
     /\ (/\ Idle
         /\ IsValidation(req')
         /\ hashLicense(req'.licenseKey) \in DOMAIN licenses
         /\ ~Expired(licenses, hashLicense(req'.licenseKey), now)
         /\ ~licenses[hashLicense(req'.licenseKey)].isActive) =>
           /\ HasReason(res', "License is inactive")
           /\ UNCHANGED <<licenses, file>>
     /\ (/\ Idle
         /\ IsValidation(req')
         /\ Usable(licenses, hashLicense(req'.licenseKey), now)) =>
           LET license == licenses[hashLicense(req'.licenseKey)] IN
             /\ req'.op = "validate" => IsValid(res')
             /\ (/\ req'.op = "verifyLicense"
                 /\ license.boundDeviceId \in {None, Some(req'.deviceId)}) => IsValid(res')
             /\ (/\ req'.op = "verifyUser"
                 /\ \E i \in 1..Len(UsersOf(license)) :
                      /\ UsersOf(license)[i].username = req'.username
                      /\ UsersOf(license)[i].isActive) => IsValid(res')]_vars

\* a license that has been used and bound to a device is refused as inactive
C13_Witness ==
  /\ req.op = "verifyLicense"
  /\ HasReason(res, "License is inactive")
  /\ licenses[hashLicense(req.licenseKey)].boundDeviceId = Some(req.deviceId)
  /\ licenses[hashLicense(req.licenseKey)].usageCount > 0
  /\ HistoryOf(licenses[hashLicense(req.licenseKey)]) # <<>>

---------------------------------------------------------------------------
\* C14: Issue with a customerId answers 201 with a hash and a record; the hash
\* is the digest of the record's key and was not in the registry, the registry
\* afterwards has exactly that one entry more, the other entries unchanged, and
\* holds the returned record under the hash, with the customerId of the
\* request, usageCount 0, isActive true, no bound device, no users and no login
\* history.  Lookup of a hash of the registry answers 200 with the hash and the
\* record stored under it, so a Lookup right after the Issue returns that
\* record.
C14_IssueThenLookup ==
  [][/\ (Handles("issue") /\ req'.customerId # "") =>
          /\ res'.status = 201
          /\ res'.body.success
          /\ LET h == res'.body.hash
                 license == res'.body.license
             IN /\ h = hashLicense(license.key)
                /\ h \notin DOMAIN licenses
                /\ DOMAIN licenses' = DOMAIN licenses \cup {h}
                /\ Cardinality(DOMAIN licenses') = Cardinality(DOMAIN licenses) + 1
                /\ \A g \in DOMAIN licenses : licenses'[g] = licenses[g]
                /\ licenses'[h] = license
                /\ license.customerId = req'.customerId
                /\ license.usageCount = 0
                /\ license.isActive
                /\ license.boundDeviceId = None
                /\ license.users = None
                /\ license.loginHistory = None
     /\ (Handles("lookup") /\ req'.hash \in DOMAIN licenses) =>
          /\ res' = Reply(200, [hash |-> req'.hash, license |-> licenses[req'.hash]])
          /\ UNCHANGED <<licenses, file>>]_vars

\* the Lookup of a fresh license, issued on a later day next to a license that
\* has been used
C14_Witness ==
  /\ req.op = "lookup"
  /\ res.status = 200
  /\ res.body.license.usageCount = 0
  /\ res.body.license.isActive
  /\ NewDate(res.body.license.created) = now
  /\ now > 0
  /\ Cardinality(DOMAIN licenses) = 2
  /\ \E g \in DOMAIN licenses : licenses[g].usageCount > 0

---------------------------------------------------------------------------
\* C15: Extend by d > 0 days of a license of the registry answers 200 with the
\* extended record: its expirationDate is exactly d * 86400 seconds later, its
\* validityDays is greater by exactly d, every other field of the record is as
\* before, and no other record changes.
C15_Extend ==
  [][(/\ Handles("extend")
      /\ req'.daysToAdd # None
      /\ req'.daysToAdd[1] > 0
      /\ req'.hash \in DOMAIN licenses) =>
        LET h == req'.hash
            d == req'.daysToAdd[1]
            old == licenses[h]
            new == licenses'[h]
        IN /\ res' = Reply(200, [success |-> TRUE, hash |-> h, license |-> new])
           /\ NewDate(new.expirationDate) = NewDate(old.expirationDate) + d * 86400
           /\ new.validityDays = old.validityDays + d
           /\ \A f \in DOMAIN old \ {"expirationDate", "validityDays"} : new[f] = old[f]
           /\ DOMAIN new = DOMAIN old
           /\ DOMAIN licenses' = DOMAIN licenses
           /\ \A g \in DOMAIN licenses \ {h} : licenses'[g] = licenses[g]]_vars

\* a used, bound, deactivated license, already extended once, is extended by
\* two days on a later day
C15_Witness ==
  /\ req.op = "extend"
  /\ req.daysToAdd = Some(2)
  /\ res.status = 200
  /\ res.body.license.validityDays = 4
  /\ res.body.license.usageCount > 0
  /\ res.body.license.boundDeviceId # None
  /\ ~res.body.license.isActive
  /\ now > 0

---------------------------------------------------------------------------
\* expirationDate = created + validityDays days
ExpiresAsValid(license) ==
  NewDate(license.expirationDate) = NewDate(license.created) + license.validityDays * 86400

\* C16: in every state every record of the registry has expirationDate =
\* created + validityDays days; and a step that is neither an Issue nor an
\* Extend changes created, expirationDate and validityDays of no record, Issue
\* changes them in no record that was there before, and Extend only in the
\* record it names.
C16_ExpirationIsCreatedPlusValidity ==
  /\ [](\A h \in DOMAIN licenses : ExpiresAsValid(licenses[h]))
  /\ [][\A h \in DOMAIN licenses \cap DOMAIN licenses' :
          (req'.op = "extend" => h # req'.hash) =>
            /\ licenses'[h].created = licenses[h].created
            /\ licenses'[h].expirationDate = licenses[h].expirationDate
            /\ licenses'[h].validityDays = licenses[h].validityDays]_vars

\* a license issued on a later day for one day and extended by one day the day
\* after
C16_Witness ==
  /\ req.op = "extend"
  /\ res.status = 200
  /\ NewDate(licenses[req.hash].created) > 0
  /\ now > NewDate(licenses[req.hash].created)
  /\ licenses[req.hash].validityDays = 2
  /\ ExpiresAsValid(licenses[req.hash])

---------------------------------------------------------------------------
\* C17: in every state, so after every operation and between any two, the
\* file has one entry for each hash of the registry and no other, and the
\* record read from the entry is the record the registry holds under the hash.
C17_FileHoldsRegistry ==
  /\ {e[1] : e \in file} = DOMAIN licenses
  /\ Cardinality(file) = Cardinality(DOMAIN licenses)
  /\ \A e \in file : parseRecord(e[2]) = licenses[e[1]]

\* after a counted login the file has the record with its device, its users,
\* its history and its count
C17_Witness ==
  /\ req.op = "verifyUser"
  /\ IsValid(res)
  /\ \E e \in file :
       /\ e[1] = hashLicense(req.licenseKey)
       /\ "boundDeviceId" \in DOMAIN e[2]
       /\ "users" \in DOMAIN e[2]
       /\ Len(e[2].loginHistory) = 2
       /\ e[2].usageCount = 2
       /\ e[2].isActive

---------------------------------------------------------------------------
---------------------------------------------------------------------------
\* the request names a license that is not in the registry
MissingLicense(r) == r.hash \notin DOMAIN licenses

\* C19: a management operation that fails answers its error and changes
\* neither the registry nor the file: Issue without customerId (400); AddUser
\* on a missing license (404) or with a username already in the list (400);
\* SetUserActive and RemoveUser on a missing license or for a username that is
\* not in the list (404); Deactivate, Activate and Delete on a missing license
\* (404); Extend on a missing license (404, or 400 when daysToAdd is not
\* positive).
C19_FailureChangesNothing ==
  [][/\ (Handles("issue") /\ req'.customerId = "") =>
          /\ res' = Reply(400, [error |-> "Customer ID is required"])
          /\ UNCHANGED <<licenses, file>>
     /\ (Handles("addUser") /\ MissingLicense(req')) =>
          /\ res' = NotFound("License not found")
          /\ UNCHANGED <<licenses, file>>
     /\ (/\ Handles("addUser")
         /\ ~MissingLicense(req')
         /\ req'.username \in UsernamesOf(licenses[req'.hash])) =>
          /\ res' = Reply(400, [error |-> "User already exists in this license"])
          /\ UNCHANGED <<licenses, file>>
     /\ ((Handles("setUserActive") \/ Handles("removeUser")) /\ MissingLicense(req')) =>
          /\ res' = NotFound("License not found")
          /\ UNCHANGED <<licenses, file>>
     /\ (/\ Handles("setUserActive") \/ Handles("removeUser")
         /\ ~MissingLicense(req')
         /\ req'.username \notin UsernamesOf(licenses[req'.hash])) =>
          /\ res' \in {NotFound("Users not found"), NotFound("User not found in license")}
          /\ UNCHANGED <<licenses, file>>
     /\ (/\ Handles("deactivate") \/ Handles("activate") \/ Handles("delete")
         /\ MissingLicense(req')) =>
          /\ res' = NotFound("License not found")
          /\ UNCHANGED <<licenses, file>>
     /\ (Handles("extend") /\ MissingLicense(req')) =>
          /\ res'.status = IF req'.daysToAdd # None /\ req'.daysToAdd[1] > 0 THEN 404 ELSE 400
          /\ "error" \in DOMAIN res'.body
          /\ UNCHANGED <<licenses, file>>]_vars

\* RemoveUser for a username that is not in the list of a license that has
\* another user, who has logged in
C19_Witness ==
  /\ req.op = "removeUser"
  /\ res = NotFound("User not found in license")
  /\ req.hash \in DOMAIN licenses
  /\ Len(UsersOf(licenses[req.hash])) = 1
  /\ licenses[req.hash].usageCount > 0
  /\ file = saveLicenses(licenses)

---------------------------------------------------------------------------
\* C20: Extend with daysToAdd absent, zero or negative answers 400 with its
\* error, whether or not the hash is in the registry, and changes no record
\* (so neither expirationDate nor validityDays) and not the file; Extend with
\* a positive daysToAdd and a hash that is not in the registry answers 404
\* "License not found" and changes nothing.
C20_ExtendRejects ==
  [][/\ (/\ Handles("extend")
         /\ (req'.daysToAdd = None \/ req'.daysToAdd[1] <= 0)) =>
           /\ res' = Reply(400, [error |->
                                   "License hash and positive daysToAdd are required"])
           /\ UNCHANGED <<licenses, file>>
     /\ (/\ Handles("extend")
         /\ req'.daysToAdd # None
         /\ req'.daysToAdd[1] > 0
         /\ req'.hash \notin DOMAIN licenses) =>
           /\ res' = NotFound("License not found")
           /\ UNCHANGED <<licenses, file>>]_vars

\* an Extend without daysToAdd is refused for a license that was extended
\* before
C20_Witness ==
  /\ req.op = "extend"
  /\ req.daysToAdd = None
  /\ res.status = 400
  /\ req.hash \in DOMAIN licenses
  /\ licenses[req.hash].validityDays = 3
  /\ NewDate(licenses[req.hash].expirationDate) =
       NewDate(licenses[req.hash].created) + 3 * DayLength

---------------------------------------------------------------------------
\* C21: Delete of a hash of the registry answers 200 and removes that entry
\* and no other, the remaining records unchanged.  For a hash that is not in
\* the registry, so also after its Delete, Lookup answers 404, a validation
\* with a key of that hash answers valid:false "License not found", and Delete
\* answers 404 "License not found", all without a change.  A step that is not
\* a Delete removes no hash from the registry.
C21_Delete ==
  [][/\ (Handles("delete") /\ req'.hash \in DOMAIN licenses) =>
          /\ res' = Reply(200, [success |-> TRUE])
          /\ DOMAIN licenses' = DOMAIN licenses \ {req'.hash}
          /\ \A g \in DOMAIN licenses' : licenses'[g] = licenses[g]
     /\ (Handles("delete") /\ req'.hash \notin DOMAIN licenses) =>
          /\ res' = NotFound("License not found")
          /\ UNCHANGED <<licenses, file>>
     /\ (Handles("lookup") /\ req'.hash \notin DOMAIN licenses) =>
          /\ res' = NotFound("License not found")
          /\ UNCHANGED <<licenses, file>>
     /\ (/\ Idle
         /\ IsValidation(req')
         /\ hashLicense(req'.licenseKey) \notin DOMAIN licenses) =>
          /\ HasReason(res', "License not found")
          /\ UNCHANGED <<licenses, file>>
     /\ ~Handles("delete") => DOMAIN licenses \subseteq DOMAIN licenses']_vars

\* one of two licenses is deleted; the other, which has been used and has a
\* user, stays
C21_Witness ==
  /\ req.op = "delete"
  /\ res.status = 200
  /\ req.hash \notin DOMAIN licenses
  /\ Cardinality(DOMAIN licenses) = 1
  /\ \E g \in DOMAIN licenses :
       /\ licenses[g].usageCount > 0
       /\ UsersOf(licenses[g]) # <<>>
  /\ file = saveLicenses(licenses)

---------------------------------------------------------------------------
\* the reasons of a negative validation result
NegativeReasons ==
  {"License not found", "License expired", "License is inactive",
   "License is bound to a different device", "No users assigned to this license",
   "User not assigned to this license", "User is deactivated"}

\* C22: a validation answers 200 or 400 and nothing else, so never 404; it
\* answers 400 exactly when the key, the device id or the username is missing;
\* with its inputs present it answers 200, with valid:true or with exactly
\* {valid:false, reason}, the reason being one of the seven negative results;
\* and a license that is missing, expired or inactive, a device other than
\* the bound one and a user who is not an active user of the license are all
\* answered with 200 and valid:false.
C22_NegativeResultsAre200 ==
  [][(Idle /\ req'.op \in {"validate", "verifyLicense", "verifyUser"}) =>
       /\ res'.status \in {200, 400}
       /\ res'.status = 400 <=> ~IsValidation(req')
       /\ res'.status = 400 => res'.body.valid = FALSE
       /\ IsValidation(req') =>
            LET h == hashLicense(req'.licenseKey) IN
              /\ \/ IsValid(res')
                 \/ \E r \in NegativeReasons :
                      res' = Reply(200, [valid |-> FALSE, reason |-> r])
              /\ ~Usable(licenses, h, now) =>
                   res'.status = 200 /\ IsInvalid(res')
              /\ (/\ Usable(licenses, h, now)
                  /\ req'.op = "verifyLicense"
                  /\ licenses[h].boundDeviceId \notin {None, Some(req'.deviceId)}) =>
                   res'.status = 200 /\ IsInvalid(res')
              /\ (/\ Usable(licenses, h, now)
                  /\ req'.op = "verifyUser"
                  /\ ~\E i \in 1..Len(UsersOf(licenses[h])) :
                        /\ UsersOf(licenses[h])[i].username = req'.username
                        /\ UsersOf(licenses[h])[i].isActive) =>
                   res'.status = 200 /\ IsInvalid(res')]_vars

\* a device other than the bound one is answered with 200 and valid:false
C22_Witness ==
  /\ req.op = "verifyLicense"
  /\ res = Reply(200, [valid |-> FALSE,
                       reason |-> "License is bound to a different device"])
  /\ licenses[hashLicense(req.licenseKey)].boundDeviceId # Some(req.deviceId)

---------------------------------------------------------------------------
\* C23: in every step, every record that is in the registry before and after
\* the step has a usageCount that is not less than before, and a record that
\* an Issue adds has usageCount 0.
C23_UsageCountMonotone ==
  [][/\ \A h \in DOMAIN licenses \cap DOMAIN licenses' :
          licenses'[h].usageCount >= licenses[h].usageCount
     /\ \A h \in DOMAIN licenses' \ DOMAIN licenses :
          licenses'[h].usageCount = 0]_vars

\* a license that has been counted twice is deactivated on a later day and
\* keeps its count
C23_Witness ==
  /\ req.op = "deactivate"
  /\ res.status = 200
  /\ licenses[req.hash].usageCount = 2
  /\ HistoryOf(licenses[req.hash]) # <<>>
  /\ now > 0

---------------------------------------------------------------------------
\* C24: Stats answers 200 with total = the number of records, active = the
\* records with isActive true, inactive = the others, available = total -
\* active, expired = the records whose expirationDate is before now, and
\* expiringIn30Days = the records whose expirationDate is not before now and
\* at most 30 days after it, whatever their isActive; and it changes neither
\* the registry nor the file.
C24_Stats ==
  [][Handles("stats") =>
       LET body == res'.body
           all == DOMAIN licenses
           active == {h \in all : licenses[h].isActive}
           expired == {h \in all : NewDate(licenses[h].expirationDate) < now}
           soon == {h \in all \ expired :
                      NewDate(licenses[h].expirationDate) <= now + 30 * 86400}
       IN /\ res'.status = 200
          /\ body.total = Cardinality(all)
          /\ body.active = Cardinality(active)
          /\ body.inactive = Cardinality(all \ active)
          /\ body.active + body.inactive = body.total
          /\ body.available = body.total - body.active
          /\ body.expired = Cardinality(expired)
          /\ body.expiringIn30Days = Cardinality(soon)
          /\ UNCHANGED <<licenses, file>>]_vars

\* Stats over an expired, active license and a deactivated license that
\* expires exactly 30 days from now
C24_Witness ==
  /\ req.op = "stats"
  /\ res.body.total = 2
  /\ res.body.expired = 1
  /\ res.body.expiringIn30Days = 1
  /\ res.body.inactive = 1
  /\ \E h \in DOMAIN licenses :
       /\ NewDate(licenses[h].expirationDate) = now + 30 * DayLength
       /\ ~licenses[h].isActive
  /\ \E h \in DOMAIN licenses :
       /\ NewDate(licenses[h].expirationDate) < now
       /\ licenses[h].isActive

---------------------------------------------------------------------------
\* the received requests for the license under hash h that were answered
\* valid:true
Succeeded(h) ==
  {i \in 1..Len(inbox) :
     /\ inbox[i].response # None
     /\ IsValid(inbox[i].response[1])
     /\ hashLicense(inbox[i].request.licenseKey) = h}

\* C25: whenever no handler is running, whatever the order in which the
\* requests that were in flight together have been handled, the usageCount of
\* a license is the number of ValidateByKey and ValidateUser requests for it
\* that were answered valid:true, and its login history has one entry for each
\* such ValidateUser: every successful call has added exactly one, and none
\* was lost.
C25_NoLostUpdate ==
  Idle =>
    \A h \in DOMAIN licenses :
      /\ licenses[h].usageCount = Cardinality(Succeeded(h))
      /\ Len(HistoryOf(licenses[h])) =
           Cardinality({i \in Succeeded(h) : inbox[i].request.op = "verifyUser"})
      /\ file = saveLicenses(licenses)

\* three requests were in flight together, a refused one among them: the two
\* that succeeded, a ValidateByKey and a ValidateUser, were received after it
C25_Witness ==
  /\ Idle
  /\ Len(inbox) = 3
  /\ Waiting = {}
  /\ ~IsValid(inbox[1].response[1])
  /\ inbox[2].request.op = "validate"
  /\ inbox[3].request.op = "verifyUser"
  /\ Cardinality(Succeeded(hashLicense(TheKey))) = 2
  /\ licenses[hashLicense(TheKey)].usageCount = 2

---------------------------------------------------------------------------
\* the response r is the success response of an operation that changes the
\* registry
Succeeds(r) ==
  /\ r.status \in {200, 201}
  /\ "success" \in DOMAIN r.body \/ IsValid(r)

\* the registry l2 has what the successful request q with response r does to
\* the registry l
Mutated(q, r, l, l2) ==
  LET h == IF "hash" \in DOMAIN q THEN q.hash
           ELSE IF "licenseKey" \in DOMAIN q THEN hashLicense(q.licenseKey)
           ELSE r.body.hash
  IN CASE q.op = "issue" ->
            h \notin DOMAIN l /\ h \in DOMAIN l2 /\ l2[h] = r.body.license
       [] q.op = "delete" -> h \in DOMAIN l /\ h \notin DOMAIN l2
       [] q.op \in {"validate", "verifyUser"} ->
            l2[h].usageCount = l[h].usageCount + 1
       [] q.op = "verifyLicense" -> l2[h].boundDeviceId = Some(q.deviceId)
       [] q.op = "addUser" ->
            /\ ~q.username \in UsernamesOf(l[h])
            /\ q.username \in UsernamesOf(l2[h])
       [] q.op = "setUserActive" ->
            \E i \in 1..Len(UsersOf(l2[h])) :
              /\ UsersOf(l2[h])[i].username = q.username
              /\ UsersOf(l2[h])[i].isActive = q.isActive
       [] q.op = "removeUser" -> Len(UsersOf(l2[h])) = Len(UsersOf(l[h])) - 1
       [] q.op = "deactivate" -> ~l2[h].isActive
       [] q.op = "activate" -> l2[h].isActive
       [] q.op = "extend" ->
            l2[h].validityDays = l[h].validityDays + q.daysToAdd[1]
       [] OTHER -> FALSE

\* C26: a handler that answers with success has made its change to the
\* registry in memory whether the file can be written or not.  When the write
\* fails the file is not brought up to date (it stays as it was or is cut
\* short) and the answer is the same; when the write succeeds the file holds
\* the whole registry in memory, with every change left unwritten before.
C26_WriteFailureSwallowed ==
  [][(Idle /\ ~Idle' /\ Succeeds(res'))
       => /\ Mutated(req', res', licenses, licenses')
          /\ writable => file' = saveLicenses(licenses')
          /\ ~writable => file' \in {file, {}}]_vars

\* a successful validation while the file cannot be written, after an earlier
\* change that was not written either: the registry counts a use and has a
\* user that the file does not have
C26_Witness ==
  /\ ~Idle
  /\ ~writable
  /\ req.op = "validate"
  /\ Succeeds(res)
  /\ hashLicense(TheKey) \in DOMAIN licenses
  /\ licenses[hashLicense(TheKey)].usageCount = 1
  /\ "u1" \in UsernamesOf(licenses[hashLicense(TheKey)])
  /\ hashLicense(TheKey) \in DOMAIN loadLicenses(file)
  /\ loadLicenses(file)[hashLicense(TheKey)].usageCount = 0
  /\ loadLicenses(file)[hashLicense(TheKey)].users = None

---------------------------------------------------------------------------
\* the position of the first user named username in users, 0 when there is none
PositionOf(users, username) ==
  IF \E i \in 1..Len(users) : users[i].username = username
    THEN CHOOSE i \in 1..Len(users) :
           /\ users[i].username = username
           /\ \A j \in 1..(i - 1) : users[j].username # username
    ELSE 0

\* C27: a successful SetUserActive(hash, u, v) gives the registry in which the
\* isActive of u under hash is v and nothing else differs: role and addedAt
\* of u, the other users, the other fields of the license and the other
\* licenses are as before.  When u already has isActive = v, as after a first
\* SetUserActive(hash, u, v), the registry does not change at all.
C27_SetUserActive ==
  [][(Idle /\ req'.op = "setUserActive" /\ res'.status = 200)
       => LET h == req'.hash
              users == UsersOf(licenses[h])
              i == PositionOf(users, req'.username)
          IN /\ i > 0
             /\ licenses' =
                  [licenses EXCEPT
                     ![h].users = Some([users EXCEPT ![i].isActive = req'.isActive])]
             /\ UsersOf(licenses'[h])[i].role = users[i].role
             /\ UsersOf(licenses'[h])[i].addedAt = users[i].addedAt
             /\ users[i].isActive = req'.isActive => licenses' = licenses
             /\ res'.body.user = UsersOf(licenses'[h])[i]]_vars

\* a request to deactivate the second of two users has succeeded: that user
\* is inactive, beside a first user with another role that is still active
C27_Witness ==
  /\ ~Idle
  /\ req.op = "setUserActive"
  /\ req.isActive = FALSE
  /\ res.status = 200
  /\ Len(UsersOf(licenses[req.hash])) = 2
  /\ UsersOf(licenses[req.hash])[1].isActive
  /\ UsersOf(licenses[req.hash])[1].role # UsersOf(licenses[req.hash])[2].role
  /\ UsersOf(licenses[req.hash])[2].username = req.username
  /\ ~UsersOf(licenses[req.hash])[2].isActive

---------------------------------------------------------------------------
\* the hashes a request is addressed to: the hash of its path, or the hash of
\* the key of its body; an Issue is addressed to no record of the registry
AddressedBy(q) ==
  IF "hash" \in DOMAIN q THEN {q.hash}
  ELSE IF "licenseKey" \in DOMAIN q THEN {hashLicense(q.licenseKey)}
  ELSE {}

\* C28: the step of a handler, whatever it answers, leaves in the registry,
\* with the record it had, every license but the one the request is addressed
\* to by hash or by key; the step of Issue leaves every license that was in
\* the registry, with the record it had.
C28_OtherLicensesUnchanged ==
  [][(Idle /\ ~Idle')
       => \A g \in DOMAIN licenses \ AddressedBy(req') :
            g \in DOMAIN licenses' /\ licenses'[g] = licenses[g]]_vars

\* one of two licenses has been deactivated; the other, which has been used
\* and has a user, is active
C28_Witness ==
  /\ req.op = "deactivate"
  /\ res.status = 200
  /\ ~licenses[req.hash].isActive
  /\ \E g \in DOMAIN licenses \ {req.hash} :
       /\ licenses[g].isActive
       /\ licenses[g].usageCount = 1
       /\ Len(UsersOf(licenses[g])) = 1

---------------------------------------------------------------------------
\* username is a user of the license and the first user of that name is active
ActiveUser(license, username) ==
  /\ PositionOf(UsersOf(license), username) > 0
  /\ UsersOf(license)[PositionOf(UsersOf(license), username)].isActive

\* C29: ValidateByKey and ValidateUser leave the boundDeviceId of the license
\* as it is, set or not.  On a license bound to a device they answer
\* valid:true exactly when their own checks pass (the license is not expired
\* and active and, for ValidateUser, the user is assigned and active), and
\* never refuse with the reason of the device check.
C29_BindingOnlyWithDevice ==
  [][(/\ Idle
      /\ req'.op \in {"validate", "verifyUser"}
      /\ hashLicense(req'.licenseKey) \in DOMAIN licenses)
       => LET h == hashLicense(req'.licenseKey) IN
          /\ h \in DOMAIN licenses'
          /\ licenses'[h].boundDeviceId = licenses[h].boundDeviceId
          /\ licenses[h].boundDeviceId # None =>
               /\ IsValid(res') <=>
                    /\ Usable(licenses, h, now)
                    /\ req'.op = "verifyUser" => ActiveUser(licenses[h], req'.username)
               /\ ~HasReason(res', "License is bound to a different device")]_vars

\* ValidateUser has answered valid:true on a license bound to device A
C29_Witness ==
  /\ req.op = "verifyUser"
  /\ IsValid(res)
  /\ licenses[hashLicense(req.licenseKey)].boundDeviceId = Some("A")
  /\ licenses[hashLicense(req.licenseKey)].usageCount = 2

---------------------------------------------------------------------------
\* C30: time does not go back.  ValidateByKey, ValidateWithDevice and
\* ValidateUser of a license of the registry whose expirationDate is before
\* now answer valid:false "License expired" and change nothing, whatever its
\* isActive, its device and its users are.  A license that is expired before
\* a step and is in the registry and not expired after it has been extended
\* by that step, to an expirationDate that is now or later: no other
\* operation and no passing of time ends the refusal.
C30_ExpiredUntilExtended ==
  [][/\ now' >= now
     /\ (/\ Idle
         /\ IsValidation(req')
         /\ Expired(licenses, hashLicense(req'.licenseKey), now)) =>
          /\ HasReason(res', "License expired")
          /\ UNCHANGED <<licenses, file>>
     /\ \A h \in DOMAIN licenses \cap DOMAIN licenses' :
          (Expired(licenses, h, now) /\ ~Expired(licenses', h, now')) =>
            /\ req'.op = "extend"
            /\ req'.hash = h
            /\ res'.status = 200
            /\ NewDate(licenses'[h].expirationDate) >= now'
            /\ NewDate(licenses'[h].expirationDate) >
                 NewDate(licenses[h].expirationDate)]_vars

\* ValidateUser of an active, assigned user is refused on a license that is
\* active, bound to a device, and expired a day ago
C30_Witness ==
  /\ req.op = "verifyUser"
  /\ HasReason(res, "License expired")
  /\ licenses[hashLicense(req.licenseKey)].isActive
  /\ licenses[hashLicense(req.licenseKey)].boundDeviceId # None
  /\ ActiveUser(licenses[hashLicense(req.licenseKey)], req.username)
  /\ NewDate(licenses[hashLicense(req.licenseKey)].expirationDate) + DayLength = now

---------------------------------------------------------------------------
\* the step is a ValidateUser of the license under hash h answered valid:true
LogsIn(h) ==
  /\ Idle
  /\ req'.op = "verifyUser"
  /\ IsValid(res')
  /\ hashLicense(req'.licenseKey) = h

\* C31: in every state, for every license of the registry, loginHistory is no
\* longer than usageCount and every entry of it has success = true.  The
\* length of loginHistory counts the successful ValidateUser calls on the
\* license while they are fewer than HistoryLimit: a license enters the
\* registry with no entry, a ValidateUser answered valid:true on a
\* loginHistory shorter than HistoryLimit makes it one longer, and no other
\* step changes its length.
C31_HistoryCountsLogins ==
  /\ [](\A h \in DOMAIN licenses :
          /\ Len(HistoryOf(licenses[h])) <= licenses[h].usageCount
          /\ \A i \in 1..Len(HistoryOf(licenses[h])) :
               HistoryOf(licenses[h])[i].success = TRUE)
  /\ [][\A h \in DOMAIN licenses' :
          IF h \notin DOMAIN licenses
            THEN Len(HistoryOf(licenses'[h])) = 0
          ELSE IF LogsIn(h)
            THEN Len(HistoryOf(licenses[h])) < HistoryLimit =>
                   Len(HistoryOf(licenses'[h])) = Len(HistoryOf(licenses[h])) + 1
          ELSE Len(HistoryOf(licenses'[h])) = Len(HistoryOf(licenses[h]))]_vars

\* the 99th successful ValidateUser of a license that has also been validated
\* twice by key: 99 entries, usageCount 101
C31_Witness ==
  /\ req.op = "verifyUser"
  /\ IsValid(res)
  /\ Len(HistoryOf(licenses[hashLicense(req.licenseKey)])) = HistoryLimit - 1
  /\ licenses[hashLicense(req.licenseKey)].usageCount = HistoryLimit + 1

=============================================================================
